---- MODULE Spec2Model ----
(***************************************************************************)
(* Model of programs/kamino-integration/src/lib.rs: the Q64.64 health      *)
(* factor engine (compute_hf_internal and its math helpers) and the        *)
(* compute_hf instruction that stores the result in the user's hf_state    *)
(* account.                                                                *)
(*                                                                         *)
(* u128 and U256 values do not fit TLC's integers, so every wide value is  *)
(* a natural number written as a little-endian sequence of limbs in base   *)
(* 2^8 with no leading (most significant) zero limb; <<>> is zero.  The    *)
(* operators of U256 that the program uses (from, checked_mul, /, <<, >>,  *)
(* as_u128) and u128::checked_add are defined on that representation.      *)
(***************************************************************************)
EXTENDS Integers, Sequences, FiniteSets, TLC

\* ------------------------------------------------------------------------
\* Wide naturals (ethereum_types::U256 and u128 values)
\* ------------------------------------------------------------------------

LimbBits == 8
Base == 2^LimbBits

Zero == <<>>

RECURSIVE Norm(_)
\* drop most significant zero limbs
Norm(s) ==
    IF s = <<>> THEN <<>>
    ELSE IF s[Len(s)] = 0 THEN Norm(SubSeq(s, 1, Len(s) - 1))
    ELSE s

RECURSIVE FromInt(_)
\* U256::from / `as u128` of a non-negative machine integer
FromInt(n) ==
    IF n = 0 THEN <<>> ELSE <<n % Base>> \o FromInt(n \div Base)

RECURSIVE ToInt(_)
\* value of a short limb sequence as an integer
ToInt(s) ==
    IF s = <<>> THEN 0 ELSE s[1] + Base * ToInt(Tail(s))

RECURSIVE LtFrom(_, _, _)
\* a < b for equal lengths, comparing from limb i downwards
LtFrom(a, b, i) ==
    IF i = 0 THEN FALSE
    ELSE IF a[i] # b[i] THEN a[i] < b[i]
    ELSE LtFrom(a, b, i - 1)

Lt(a, b) ==
    IF Len(a) # Len(b) THEN Len(a) < Len(b) ELSE LtFrom(a, b, Len(a))

Le(a, b) == ~Lt(b, a)

Limb(a, i) == IF i <= Len(a) THEN a[i] ELSE 0

RECURSIVE AddFrom(_, _, _, _)
AddFrom(a, b, i, carry) ==
    IF i > Len(a) /\ i > Len(b)
    THEN (IF carry = 0 THEN <<>> ELSE <<carry>>)
    ELSE LET s == Limb(a, i) + Limb(b, i) + carry
         IN  <<s % Base>> \o AddFrom(a, b, i + 1, s \div Base)

Add(a, b) == AddFrom(a, b, 1, 0)

RECURSIVE SubFrom(_, _, _, _)
SubFrom(a, b, i, borrow) ==
    IF i > Len(a) THEN <<>>
    ELSE LET d == a[i] - Limb(b, i) - borrow
         IN  IF d < 0 THEN <<d + Base>> \o SubFrom(a, b, i + 1, 1)
             ELSE <<d>> \o SubFrom(a, b, i + 1, 0)

\* a - b for a >= b
Sub(a, b) == Norm(SubFrom(a, b, 1, 0))

RECURSIVE MulSmallFrom(_, _, _, _)
MulSmallFrom(a, d, i, carry) ==
    IF i > Len(a) THEN FromInt(carry)
    ELSE LET p == a[i] * d + carry
         IN  <<p % Base>> \o MulSmallFrom(a, d, i + 1, p \div Base)

\* a * d for a machine integer d < 2^16
MulSmall(a, d) == IF d = 0 THEN <<>> ELSE MulSmallFrom(a, d, 1, 0)

\* a * Base^k and floor(a / Base^k)
ShlLimbs(a, k) == IF a = <<>> THEN <<>> ELSE [i \in 1..k |-> 0] \o a
ShrLimbs(a, k) == IF Len(a) <= k THEN <<>> ELSE SubSeq(a, k + 1, Len(a))

RECURSIVE MulFrom(_, _, _, _)
\* acc * Base^i + a * (b mod Base^i), by Horner's rule over the limbs of b
MulFrom(a, b, i, acc) ==
    IF i = 0 THEN acc
    ELSE IF acc = <<>> THEN MulFrom(a, b, i - 1, MulSmall(a, b[i]))
    ELSE MulFrom(a, b, i - 1, Add(MulSmall(a, b[i]), <<0>> \o acc))

\* the exact product a * b
Mul(a, b) == IF a = <<>> THEN <<>> ELSE MulFrom(a, b, Len(b), <<>>)

RECURSIVE FixDown(_, _, _)
\* the largest digit e <= d with e * b <= r
FixDown(r, b, d) ==
    IF Le(MulSmall(b, d), r) THEN d ELSE FixDown(r, b, d - 1)

\* floor(r / b) for b <= r < b * Base: estimated from the two leading limbs of b
\* (never below the true digit), then corrected downwards
QuoDigit(r, b) ==
         LET k   == IF Len(b) > 2 THEN Len(b) - 2 ELSE 0
             bt  == ToInt(ShrLimbs(b, k))
             rt  == ToInt(ShrLimbs(r, k))
             est == IF rt \div bt > Base - 1 THEN Base - 1 ELSE rt \div bt
         IN  FixDown(r, b, est)

RECURSIVE DivFrom(_, _, _, _, _)
\* long division of a by b # 0: q and r are the quotient and remainder of
\* floor(a / Base^i) by b
DivFrom(a, b, i, q, r) ==
    IF i = 0 THEN q
    ELSE LET r1 == Norm(<<a[i]>> \o r)
         IN  IF Lt(r1, b) THEN DivFrom(a, b, i - 1, ShlLimbs(q, 1), r1)
             ELSE LET d == QuoDigit(r1, b)
                  IN  DivFrom(a, b, i - 1, <<d>> \o q, Sub(r1, MulSmall(b, d)))

\* floor(a / b), b # 0
Div(a, b) == DivFrom(a, b, Len(a), <<>>, <<>>)

\* ------------------------------------------------------------------------
\* Machine widths and results
\* ------------------------------------------------------------------------

U128Limbs == 128 \div LimbBits
U256Limbs == 256 \div LimbBits
Q64Limbs  == 64 \div LimbBits

\* u128::MAX = 2^128 - 1
U128_MAX == [i \in 1..U128Limbs |-> Base - 1]

\* 1.0 in Q64.64
ONE_Q64_64 == ShlLimbs(<<1>>, Q64Limbs)

\* Result<u128>: Ok(v), Err(HfError), or a panic that aborts the instruction
Ok(v)  == [tag |-> "Ok", err |-> "None", val |-> v]
Err(e) == [tag |-> "Err", err |-> e, val |-> Zero]
Panic  == [tag |-> "Panic", err |-> "None", val |-> Zero]

IsOk(r) == r.tag = "Ok"

\* Below, an operator named then_..., or one that takes Results, is the `?`
\* operator at work: it continues with the value of an Ok and returns anything
\* else, an Err or a panic, unchanged.

\* U256::as_u128: panics ("Integer overflow when casting to u128") when a
\* word above the low 128 bits is non-zero
as_u128(x) == IF Len(x) <= U128Limbs THEN Ok(x) ELSE Panic

\* U256::checked_mul of two U256 values: None when the product needs more than 256 bits
FitsU256(p) == IF Len(p) <= U256Limbs THEN Ok(p) ELSE Err("MathOverflow")

checked_mul(a, b) == FitsU256(Mul(a, b))

\* u128::checked_add(..).ok_or(MathOverflow)
FitsU128(s) == IF Len(s) <= U128Limbs THEN Ok(s) ELSE Err("MathOverflow")

\* the addition with wrapping_add in place of checked_add
checked_add_wrapping(a, b) ==
    Ok(Norm(SubSeq(Add(a, b), 1,
                   IF Len(Add(a, b)) <= U128Limbs THEN Len(Add(a, b)) ELSE U128Limbs)))

checked_add(a, b) == FitsU128(Add(a, b))

\* U256 << 64: bits shifted beyond bit 255 are dropped
WrapU256(s) == IF Len(s) <= U256Limbs THEN s ELSE Norm(SubSeq(s, 1, U256Limbs))

shl64(a) == WrapU256(ShlLimbs(a, Q64Limbs))

\* U256 >> 64
shr64(a) == ShrLimbs(a, Q64Limbs)

\* `.as_u128()`, `/ denom` and `>> 64` applied to a result so far
then_as_u128(r) == IF IsOk(r) THEN as_u128(r.val) ELSE r
then_div(r, denom) == IF IsOk(r) THEN Ok(Div(r.val, denom)) ELSE r
then_shr64(r) == IF IsOk(r) THEN Ok(shr64(r.val)) ELSE r

\* ------------------------------------------------------------------------
\* Math helpers
\* ------------------------------------------------------------------------

RECURSIVE ten_pow(_)
ten_pow(dec) == IF dec = 0 THEN <<1>> ELSE MulSmall(ten_pow(dec - 1), 10)

mul_div_q64(a, b, denom) ==
    IF denom = Zero THEN Err("MathOverflow")
    ELSE then_as_u128(then_div(checked_mul(a, b), denom))

bps_to_q64(bps) == mul_div_q64(FromInt(bps), ONE_Q64_64, FromInt(10000))

\* the product rounded up instead of down
q64_mul_round_up(a_q64, b_q64) ==
    then_as_u128(then_shr64(
        FitsU256(Add(Mul(a_q64, b_q64), Sub(ONE_Q64_64, <<1>>)))))

q64_mul(a_q64, b_q64) == then_as_u128(then_shr64(checked_mul(a_q64, b_q64)))

q64_div(a_q64, b_q64) ==
    IF b_q64 = Zero THEN Err("MathOverflow")
    ELSE as_u128(Div(shl64(a_q64), b_q64))

\* `price_e8 as u128` sign-extends a negative i64; U256 `*` panics on overflow
i64_as_u128(n) ==
    IF n >= 0 THEN FromInt(n) ELSE Sub(Add(U128_MAX, <<1>>), FromInt(-n))

\* U256 `*`: panics ("arithmetic operation overflow") beyond 256 bits
mul_or_panic(p) == IF Len(p) <= U256Limbs THEN Ok(p) ELSE Panic

q64_from_price_e8(price_e8) ==
    then_as_u128(then_div(mul_or_panic(Mul(i64_as_u128(price_e8), ONE_Q64_64)),
                          FromInt(100000)))

\* ------------------------------------------------------------------------
\* compute_hf_internal
\* ------------------------------------------------------------------------

\* CollateralInput; amount is a wide natural (u64), the other fields integers
Collateral(amount, decimals, price_e8, liq_threshold_bps, borrow_factor_bps) ==
    [amount |-> amount, decimals |-> decimals, price_e8 |-> price_e8,
     liq_threshold_bps |-> liq_threshold_bps,
     borrow_factor_bps |-> borrow_factor_bps]

\* DebtInput
Debt(amount, decimals, price_e8) ==
    [amount |-> amount, decimals |-> decimals, price_e8 |-> price_e8]

\* the checks of one collateral without the liquidation-threshold check
collateral_check_no_threshold(c) ==
    IF ~(c.price_e8 > 0) THEN "InvalidPrice"
    ELSE IF ~(c.decimals <= 18) THEN "InvalidDecimals"
    ELSE IF ~(c.borrow_factor_bps = 0
              \/ (c.borrow_factor_bps >= 1000 /\ c.borrow_factor_bps <= 10000))
         THEN "InvalidBorrowFactor"
    ELSE "None"

\* the checks of one collateral with decimals checked before the price
collateral_check_decimals_first(c) ==
    IF ~(c.decimals <= 18) THEN "InvalidDecimals"
    ELSE IF ~(c.price_e8 > 0) THEN "InvalidPrice"
    ELSE IF ~(c.liq_threshold_bps <= 10000) THEN "InvalidLiqThreshold"
    ELSE IF ~(c.borrow_factor_bps = 0
              \/ (c.borrow_factor_bps >= 1000 /\ c.borrow_factor_bps <= 10000))
         THEN "InvalidBorrowFactor"
    ELSE "None"

\* the require! checks of one collateral, in source order; "None" when all pass
collateral_check(c) ==
    IF ~(c.price_e8 > 0) THEN "InvalidPrice"
    ELSE IF ~(c.decimals <= 18) THEN "InvalidDecimals"
    ELSE IF ~(c.liq_threshold_bps <= 10000) THEN "InvalidLiqThreshold"
    ELSE IF ~(c.borrow_factor_bps = 0
              \/ (c.borrow_factor_bps >= 1000 /\ c.borrow_factor_bps <= 10000))
         THEN "InvalidBorrowFactor"
    ELSE "None"

\* the require! checks of one debt
debt_check(d) ==
    IF ~(d.price_e8 > 0) THEN "InvalidPrice"
    ELSE IF ~(d.decimals <= 18) THEN "InvalidDecimals"
    ELSE "None"

\* q64_div(val, bf_q64) once bf_q64 is there
then_q64_div(val, bf_q64) == IF IsOk(bf_q64) THEN q64_div(val, bf_q64.val) ELSE bf_q64

\* q64_mul(val, bf_q64) once bf_q64 is there
then_q64_mul(val, bf_q64) == IF IsOk(bf_q64) THEN q64_mul(val, bf_q64.val) ELSE bf_q64

\* the borrow factor multiplied into the base value instead of divided out
apply_borrow_factor_multiplying(c, val) ==
    IF ~IsOk(val) THEN val
    ELSE IF c.borrow_factor_bps > 0
    THEN then_q64_mul(val.val, bps_to_q64(c.borrow_factor_bps))
    ELSE val

\* the borrow factor applied to the base value `val`
apply_borrow_factor(c, val) ==
    IF ~IsOk(val) THEN val
    ELSE IF c.borrow_factor_bps > 0
    THEN then_q64_div(val.val, bps_to_q64(c.borrow_factor_bps))
    ELSE val

\* `val = q64_mul(val, lt_q64)?` on the first product
then_mul_threshold(val, lt_q64) == IF IsOk(val) THEN q64_mul(val.val, lt_q64) ELSE val

\* the base value of a collateral from its three factors, evaluated in the
\* order of the arguments: amount * price * liq_threshold
collateral_base(amt_norm_q64, price, lt_q64) ==
    IF ~IsOk(amt_norm_q64) THEN amt_norm_q64
    ELSE IF ~IsOk(price) THEN price
    ELSE IF ~IsOk(lt_q64) THEN lt_q64
    ELSE then_mul_threshold(q64_mul(amt_norm_q64.val, price.val), lt_q64.val)

\* one iteration of the collateral loop up to the final `val`
collateral_value(c) ==
    IF collateral_check(c) # "None" THEN Err(collateral_check(c))
    ELSE apply_borrow_factor(c,
             collateral_base(mul_div_q64(c.amount, ONE_Q64_64, ten_pow(c.decimals)),
                             q64_from_price_e8(c.price_e8),
                             bps_to_q64(c.liq_threshold_bps)))

\* debt value = amount * price
debt_base(amt_norm_q64, price) ==
    IF ~IsOk(amt_norm_q64) THEN amt_norm_q64
    ELSE IF ~IsOk(price) THEN price
    ELSE q64_mul(amt_norm_q64.val, price.val)

\* one iteration of the debt loop up to `val`
debt_value(d) ==
    IF debt_check(d) # "None" THEN Err(debt_check(d))
    ELSE debt_base(mul_div_q64(d.amount, ONE_Q64_64, ten_pow(d.decimals)),
                   q64_from_price_e8(d.price_e8))

\* the end of a loop iteration: add the position's `val` to the running total
accumulate(total, v) == IF IsOk(v) THEN checked_add(total, v.val) ELSE v

\* the final result with 0 in place of the sentinel
final_hf_zero_without_debt(total_collateral, total_debt) ==
    IF total_debt = Zero THEN Ok(Zero)
    ELSE q64_div(total_collateral, total_debt)

\* the final result with the two totals exchanged
final_hf_inverted(total_collateral, total_debt) ==
    IF total_debt = Zero THEN Ok(U128_MAX)
    ELSE q64_div(total_debt, total_collateral)

\* the final health factor from the two totals
final_hf(total_collateral, total_debt) ==
    IF total_debt = Zero THEN Ok(U128_MAX)
    ELSE q64_div(total_collateral, total_debt)

\* `for c in args.collaterals.iter()` from position n on, with the total so far
RECURSIVE collateral_loop(_, _, _)
collateral_loop(cs, n, total) ==
    IF ~IsOk(total) THEN total
    ELSE IF n > Len(cs) THEN total
    ELSE collateral_loop(cs, n + 1, accumulate(total.val, collateral_value(cs[n])))

\* `for d in args.debts.iter()` from position n on, with the total so far
RECURSIVE debt_loop(_, _, _)
debt_loop(ds, n, total) ==
    IF ~IsOk(total) THEN total
    ELSE IF n > Len(ds) THEN total
    ELSE debt_loop(ds, n + 1, accumulate(total.val, debt_value(ds[n])))

\* the final HF result once the debt loop has ended
then_final_hf(total_collateral, total_debt) ==
    IF IsOk(total_debt) THEN final_hf(total_collateral, total_debt.val)
    ELSE total_debt

\* the debt loop and the final result once the collateral loop has ended
then_debts(total_collateral, ds) ==
    IF IsOk(total_collateral)
    THEN then_final_hf(total_collateral.val, debt_loop(ds, 1, Ok(Zero)))
    ELSE total_collateral

compute_hf_internal(a) ==
    then_debts(collateral_loop(a.collaterals, 1, Ok(Zero)), a.debts)

\* ------------------------------------------------------------------------
\* Inputs
\* ------------------------------------------------------------------------

\* the longest input: collaterals and debts together
MaxPositions == 3

\* 2^63, a u64 amount whose Q64.64 value with decimals 0 is 2^127
TwoPow63 == ShlLimbs(<<2^(LimbBits - 1)>>, Q64Limbs - 1)

\* valid collaterals: the scenario's position, one with a borrow factor, one
\* worth exactly 2^127 (two of them overflow the total); then four invalid
\* ones, each failing one check more than the next
CollSet ==
    { Collateral(FromInt(1000), 6, 200000000, 8000, 0),
      Collateral(FromInt(2000), 6, 100000, 10000, 5000),
      Collateral(TwoPow63, 0, 100000, 10000, 0),
      Collateral(FromInt(1000), 19, 0, 10001, 999),
      Collateral(FromInt(1000), 19, 100000, 10001, 999),
      Collateral(FromInt(1000), 6, 100000, 10001, 10001),
      Collateral(FromInt(1000), 6, 100000, 8000, 999) }

\* valid debts: the scenario's position, a zero amount, a dust amount, one
\* whose amount * price needs 129 bits; then two invalid ones
DebtSet ==
    { Debt(FromInt(500), 6, 100000000),
      Debt(Zero, 6, 100000000),
      Debt(FromInt(1), 18, 1),
      Debt(TwoPow63, 0, 200000),
      Debt(FromInt(500), 19, -1),
      Debt(FromInt(500), 19, 100000) }

Lists(S, n) == [1..n -> S]

ArgSet ==
    UNION { UNION { { [collaterals |-> cs, debts |-> ds] :
                cs \in Lists(CollSet, nc), ds \in Lists(DebtSet, n - nc) } :
                    nc \in 0..n } : n \in 0..MaxPositions }

\* amounts, collaterals and debts of the comparisons of two inputs
PairAmounts == {Zero, FromInt(500), FromInt(1000), FromInt(2000), TwoPow63}

PairBorrowFactors == {0, 1000, 5000, 10000}

PairCollSet ==
    { Collateral(FromInt(1000), 6, 200000000, 8000, 0),
      Collateral(FromInt(1000), 6, 200000000, 8000, 1000),
      Collateral(FromInt(500), 0, 3, 3333, 5000) }

PairDebtSet ==
    { Debt(Zero, 0, 100000),
      Debt(FromInt(500), 6, 100000000),
      Debt(TwoPow63, 0, 100000) }

MaxPairPositions == 2

PairArgSet ==
    UNION { UNION { { [collaterals |-> cs, debts |-> ds] :
                        cs \in Lists(PairCollSet, nc), ds \in Lists(PairDebtSet, n - nc) } :
                    nc \in 0..n } : n \in 1..MaxPairPositions }

\* one field of one position raised: a larger amount of a collateral or of a
\* debt, or a larger borrow factor of a collateral
Variations(a) ==
    { [kind |-> "collateral_amount", idx |-> i, to |-> x] :
        i \in 1..Len(a.collaterals), x \in PairAmounts }
    \cup { [kind |-> "debt_amount", idx |-> i, to |-> x] :
             i \in 1..Len(a.debts), x \in PairAmounts }
    \cup { [kind |-> "borrow_factor", idx |-> i, to |-> FromInt(x)] :
             i \in 1..Len(a.collaterals), x \in PairBorrowFactors }

Raises(a, v) ==
    CASE v.kind = "collateral_amount" -> Lt(a.collaterals[v.idx].amount, v.to)
      [] v.kind = "debt_amount" -> Lt(a.debts[v.idx].amount, v.to)
      [] v.kind = "borrow_factor" ->
             a.collaterals[v.idx].borrow_factor_bps < ToInt(v.to)

\* the input a with variation v applied
Varied(a, v) ==
    CASE v.kind = "collateral_amount" -> [a EXCEPT !.collaterals[v.idx].amount = v.to]
      [] v.kind = "debt_amount" -> [a EXCEPT !.debts[v.idx].amount = v.to]
      [] v.kind = "borrow_factor" ->
             [a EXCEPT !.collaterals[v.idx].borrow_factor_bps = ToInt(v.to)]

NoVariation == [kind |-> "none", idx |-> 0, to |-> Zero]

\* what the varied position contributes to its total
position_value(a, v) ==
    IF v.kind = "debt_amount" THEN debt_value(a.debts[v.idx])
    ELSE collateral_value(a.collaterals[v.idx])

\* signers, the inputs they submit, and the clock's last slot
Users == {"alice", "bob"}

MaxSlot == 1

ProgArgSet ==
    { [collaterals |-> <<Collateral(FromInt(1000), 6, 200000000, 8000, 0)>>,
       debts |-> <<Debt(FromInt(500), 6, 100000000)>>],
      [collaterals |-> <<Collateral(FromInt(1000), 6, 200000000, 8000, 0)>>,
       debts |-> <<>>],
      [collaterals |-> <<>>, debts |-> <<Debt(FromInt(500), 19, 100000)>>],
      [collaterals |-> <<>>, debts |-> <<Debt(TwoPow63, 0, 200000)>>] }

\* ------------------------------------------------------------------------
\* State
\* ------------------------------------------------------------------------

VARIABLES
    args,                         \* the ComputeArgs of the call
    pc,                           \* "collaterals", "debts", "final", "done"
    k,                            \* index of the next position of the loop
    total_collateral_value_q64,
    total_debt_value_q64,
    cur,                          \* the loop variable c / d of the last iteration
    price_q64,                    \* the last iteration's local price_q64
    val,                          \* the last iteration's local val
    ret,                          \* what the call returned, NoRet while it runs
    vary,                         \* the variation of the second of two inputs
    ret2,                         \* what the call on the varied input returned
    val2,                         \* val of the varied position in that call
    signer,                       \* ctx.accounts.user of the last instruction
    hf_state,                     \* the hf_state account of each user
    emitted,                      \* the events of the last instruction
    clock                         \* the Clock sysvar

locals == <<pc, k, total_collateral_value_q64, total_debt_value_q64, cur, price_q64>>
second == <<vary, ret2, val2>>
chain  == <<signer, hf_state, emitted, clock>>

vars == <<args, locals, val, ret, second, chain>>

NoRet == [tag |-> "None", err |-> "None", val |-> Zero]

NoPosition == Debt(Zero, 0, 0)

\* an account that init_if_needed has not created yet
NoAccount ==
    [exists |-> FALSE, last_hf_q64 |-> Zero, user |-> "none", last_update_slot |-> 0]

LocalsInit ==
    /\ pc = "collaterals"
    /\ k = 1
    /\ total_collateral_value_q64 = Zero
    /\ total_debt_value_q64 = Zero
    /\ cur = NoPosition
    /\ price_q64 = NoRet

SecondInit ==
    /\ vary = NoVariation
    /\ ret2 = NoRet
    /\ val2 = NoRet

ChainInit ==
    /\ signer = "none"
    /\ hf_state = [u \in Users |-> NoAccount]
    /\ emitted = <<>>
    /\ clock = [slot |-> 0, unix_timestamp |-> 0]

\* ------------------------------------------------------------------------
\* compute_hf_internal as a state machine: one step per loop iteration
\* ------------------------------------------------------------------------

Init ==
    /\ args \in ArgSet
    /\ LocalsInit
    /\ val = NoRet
    /\ ret = NoRet
    /\ SecondInit
    /\ ChainInit

\* the body of `for c in args.collaterals.iter()`; a failure returns from the
\* function with pc and k left at the failing position
CollateralIter ==
    /\ ret = NoRet
    /\ pc = "collaterals"
    /\ k <= Len(args.collaterals)
    /\ cur' = args.collaterals[k]
    /\ price_q64' = IF collateral_check(cur') = "None"
                    THEN q64_from_price_e8(cur'.price_e8) ELSE NoRet
    /\ val' = collateral_value(cur')
    /\ \E t \in {accumulate(total_collateral_value_q64, val')} :
          IF IsOk(t)
          THEN /\ total_collateral_value_q64' = t.val
               /\ k' = k + 1
               /\ ret' = ret
          ELSE /\ ret' = t
               /\ UNCHANGED <<total_collateral_value_q64, k>>
    /\ UNCHANGED <<args, pc, total_debt_value_q64, second, chain>>

\* the collateral loop ends, the debt loop starts
CollateralsDone ==
    /\ ret = NoRet
    /\ pc = "collaterals"
    /\ k > Len(args.collaterals)
    /\ pc' = "debts"
    /\ k' = 1
    /\ UNCHANGED <<args, total_collateral_value_q64, total_debt_value_q64,
                   cur, price_q64, val, ret, second, chain>>

\* the body of `for d in args.debts.iter()`
DebtIter ==
    /\ ret = NoRet
    /\ pc = "debts"
    /\ k <= Len(args.debts)
    /\ cur' = args.debts[k]
    /\ price_q64' = IF debt_check(cur') = "None"
                    THEN q64_from_price_e8(cur'.price_e8) ELSE NoRet
    /\ val' = debt_value(cur')
    /\ \E t \in {accumulate(total_debt_value_q64, val')} :
          IF IsOk(t)
          THEN /\ total_debt_value_q64' = t.val
               /\ k' = k + 1
               /\ ret' = ret
          ELSE /\ ret' = t
               /\ UNCHANGED <<total_debt_value_q64, k>>
    /\ UNCHANGED <<args, pc, total_collateral_value_q64, second, chain>>

\* the debt loop ends
DebtsDone ==
    /\ ret = NoRet
    /\ pc = "debts"
    /\ k > Len(args.debts)
    /\ pc' = "final"
    /\ UNCHANGED <<args, k, total_collateral_value_q64, total_debt_value_q64,
                   cur, price_q64, val, ret, second, chain>>

\* the final HF result
FinalHf ==
    /\ ret = NoRet
    /\ pc = "final"
    /\ ret' = final_hf(total_collateral_value_q64, total_debt_value_q64)
    /\ pc' = "done"
    /\ UNCHANGED <<args, k, total_collateral_value_q64, total_debt_value_q64,
                   cur, price_q64, val, second, chain>>

Next == CollateralIter \/ CollateralsDone \/ DebtIter \/ DebtsDone \/ FinalHf

Spec == Init /\ [][Next]_vars

\* ------------------------------------------------------------------------
\* compute_hf_internal on two inputs that differ in one field
\* ------------------------------------------------------------------------

InitPair ==
    /\ args \in PairArgSet
    /\ vary \in {v \in Variations(args) : Raises(args, v)}
    /\ LocalsInit
    /\ val = NoRet
    /\ ret = NoRet
    /\ ret2 = NoRet
    /\ val2 = NoRet
    /\ ChainInit

\* the call on args
CallFirst ==
    /\ ret = NoRet
    /\ ret' = compute_hf_internal(args)
    /\ val' = position_value(args, vary)
    /\ UNCHANGED <<args, locals, second, chain>>

\* the call on args with the variation applied
CallSecond ==
    /\ ret # NoRet
    /\ ret2 = NoRet
    /\ ret2' = compute_hf_internal(Varied(args, vary))
    /\ val2' = position_value(Varied(args, vary), vary)
    /\ UNCHANGED <<args, locals, val, ret, vary, chain>>

NextPair == CallFirst \/ CallSecond

SpecPair == InitPair /\ [][NextPair]_vars

\* ------------------------------------------------------------------------
\* The compute_hf instruction
\* ------------------------------------------------------------------------

InitChain ==
    /\ args = [collaterals |-> <<>>, debts |-> <<>>]
    /\ LocalsInit
    /\ val = NoRet
    /\ ret = NoRet
    /\ SecondInit
    /\ ChainInit

\* compute_hf that stores the sentinel before it propagates a failure
compute_hf_storing_on_failure(user, a) ==
    /\ signer' = user
    /\ args' = a
    /\ ret' = compute_hf_internal(a)
    /\ hf_state' = [hf_state EXCEPT ![user] =
                       [exists |-> TRUE,
                        last_hf_q64 |-> IF IsOk(ret') THEN ret'.val ELSE U128_MAX,
                        user |-> user,
                        last_update_slot |-> clock.slot]]
    /\ emitted' = IF IsOk(ret')
                  THEN <<[user |-> user, hf_q64 |-> ret'.val,
                          timestamp |-> clock.unix_timestamp]>>
                  ELSE <<>>
    /\ UNCHANGED <<locals, val, second, clock>>

\* compute_hf signed by user with arguments a: an error or a panic fails the
\* transaction, which leaves every account as it was and logs no event
compute_hf(user, a) ==
    /\ signer' = user
    /\ args' = a
    /\ ret' = compute_hf_internal(a)
    /\ IF IsOk(ret')
       THEN /\ hf_state' = [hf_state EXCEPT ![user] =
                               [exists |-> TRUE,
                                last_hf_q64 |-> ret'.val,
                                user |-> user,
                                last_update_slot |-> clock.slot]]
            /\ emitted' = <<[user |-> user, hf_q64 |-> ret'.val,
                             timestamp |-> clock.unix_timestamp]>>
       ELSE /\ hf_state' = hf_state
            /\ emitted' = <<>>
    /\ UNCHANGED <<locals, val, second, clock>>

\* the cluster moves to the next slot
Tick ==
    /\ clock.slot < MaxSlot
    /\ \E dt \in {0, 1} :
          clock' = [slot |-> clock.slot + 1,
                    unix_timestamp |-> clock.unix_timestamp + dt]
    /\ UNCHANGED <<args, locals, val, ret, second, signer, hf_state, emitted>>

NextChain ==
    \/ \E user \in Users, a \in ProgArgSet : compute_hf(user, a)
    \/ Tick

SpecChain == InitChain /\ [][NextChain]_vars

\* ------------------------------------------------------------------------
\* Vocabulary of the properties
\* ------------------------------------------------------------------------

\* the call has ended: with a value, an error, or by a panic
Returned == ret # NoRet

\* the stepwise run returns what the function returns
StepsAgree == Returned => ret = compute_hf_internal(args)

\* the first requirement of section 4.2 that position p breaks, "None" if none
Requirement(p, isCollateral) ==
    IF p.price_e8 <= 0 THEN "InvalidPrice"
    ELSE IF p.decimals > 18 THEN "InvalidDecimals"
    ELSE IF isCollateral /\ p.liq_threshold_bps > 10000 THEN "InvalidLiqThreshold"
    ELSE IF isCollateral /\ p.borrow_factor_bps # 0
            /\ p.borrow_factor_bps \notin 1000..10000 THEN "InvalidBorrowFactor"
    ELSE "None"

\* every error some invalid field of position p corresponds to
FieldErrors(p, isCollateral) ==
    {e \in {"InvalidPrice", "InvalidDecimals", "InvalidLiqThreshold",
            "InvalidBorrowFactor"} :
        \/ e = "InvalidPrice" /\ p.price_e8 <= 0
        \/ e = "InvalidDecimals" /\ p.decimals > 18
        \/ e = "InvalidLiqThreshold" /\ isCollateral /\ p.liq_threshold_bps > 10000
        \/ e = "InvalidBorrowFactor" /\ isCollateral /\ p.borrow_factor_bps # 0
              /\ p.borrow_factor_bps \notin 1000..10000}

\* positions in processing order: collaterals in input order, then debts
NumPositions(a) == Len(a.collaterals) + Len(a.debts)
IsCollateralAt(a, g) == g <= Len(a.collaterals)
PositionAt(a, g) ==
    IF IsCollateralAt(a, g) THEN a.collaterals[g]
    ELSE a.debts[g - Len(a.collaterals)]
RequirementAt(a, g) == Requirement(PositionAt(a, g), IsCollateralAt(a, g))

InvalidPositions(a) == {g \in 1..NumPositions(a) : RequirementAt(a, g) # "None"}
ValidArgs(a) == InvalidPositions(a) = {}
FirstInvalid(a) ==
    CHOOSE g \in InvalidPositions(a) : \A h \in InvalidPositions(a) : g <= h

AllFieldErrors(a) ==
    UNION {FieldErrors(PositionAt(a, g), IsCollateralAt(a, g)) :
              g \in 1..NumPositions(a)}

\* the input cut after its first g positions
Truncated(a, g) ==
    IF IsCollateralAt(a, g)
    THEN [collaterals |-> SubSeq(a.collaterals, 1, g), debts |-> <<>>]
    ELSE [collaterals |-> a.collaterals,
          debts |-> SubSeq(a.debts, 1, g - Len(a.collaterals))]

\* the position at which a loop stopped the call
InLoop == pc \in {"collaterals", "debts"}
StopIndex == IF pc = "collaterals" THEN k ELSE Len(args.collaterals) + k

\* q = floor(n / d) for d # 0, stated by multiplication
IsFloorQuotient(q, n, d) ==
    /\ Le(Mul(q, d), n)
    /\ Lt(n, Mul(Add(q, <<1>>), d))

AllDebtAmountsZero(a) == \A j \in 1..Len(a.debts) : a.debts[j].amount = Zero

\* the Q64.64 value of debt d is below 2^-64: the product of its normalised
\* amount and its converted price is less than 2^64, so `>> 64` leaves 0
DebtTruncatesToZero(d) ==
    Lt(Mul(Div(Mul(d.amount, ONE_Q64_64), ten_pow(d.decimals)),
           Div(Mul(FromInt(d.price_e8), ONE_Q64_64), FromInt(100000))),
       ONE_Q64_64)

\* ------------------------------------------------------------------------
\* Properties of compute_hf_internal (specification Spec)
\* ------------------------------------------------------------------------

\* C1 as stated: a returned value is u128::MAX when the total debt value is
\* zero and floor(total_collateral * 2^64 / total_debt) otherwise, and every
\* valid collateral list with an empty or all-zero-amount debt list returns
\* u128::MAX.  Stated for calls that end without a panic.
C1_Original ==
    (Returned /\ ret.tag # "Panic") =>
        /\ IsOk(ret) =>
              IF total_debt_value_q64 = Zero THEN ret.val = U128_MAX
              ELSE IsFloorQuotient(ret.val, ShlLimbs(total_collateral_value_q64, Q64Limbs),
                                   total_debt_value_q64)
        /\ (ValidArgs(args) /\ AllDebtAmountsZero(args)) => ret = Ok(U128_MAX)

\* C1 amended: a returned value is u128::MAX when the total debt value is zero
\* and floor(total_collateral * 2^64 / total_debt) otherwise; with an empty or
\* all-zero-amount debt list a returned value is u128::MAX.
C1_ZeroDebtSentinel ==
    (Returned /\ IsOk(ret)) =>
        /\ IF total_debt_value_q64 = Zero THEN ret.val = U128_MAX
           ELSE IsFloorQuotient(ret.val, ShlLimbs(total_collateral_value_q64, Q64Limbs),
                                total_debt_value_q64)
        /\ AllDebtAmountsZero(args) => ret.val = U128_MAX

\* a call that divided a non-zero collateral total by a non-zero debt total
C1_Witness ==
    /\ Returned /\ IsOk(ret)
    /\ total_debt_value_q64 # Zero
    /\ total_collateral_value_q64 # Zero

\* C2 as stated: an invalid field anywhere makes the call fail with an error
\* that corresponds to an invalid field of the input.  Stated for calls that
\* end without a panic.
C2_Original ==
    (Returned /\ ret.tag # "Panic" /\ ~ValidArgs(args)) =>
        /\ ret.tag = "Err"
        /\ ret.err \in AllFieldErrors(args)

\* C2 amended: with an invalid field somewhere the call never returns a value;
\* it stops at or before the first invalid position; stopping there it returns
\* the error of that position's first failing check, and stopping earlier is
\* an arithmetic failure (MathOverflow or a panic) of a valid position.
C2_InvalidInputFails ==
    (Returned /\ ~ValidArgs(args)) =>
        /\ ~IsOk(ret)
        /\ InLoop
        /\ StopIndex <= FirstInvalid(args)
        /\ StopIndex = FirstInvalid(args)
              => ret = Err(RequirementAt(args, FirstInvalid(args)))
        /\ StopIndex < FirstInvalid(args)
              => ret \in {Err("MathOverflow"), Panic}

\* an invalid position behind valid ones was reached and reported
C2_Witness ==
    /\ Returned /\ ~ValidArgs(args)
    /\ FirstInvalid(args) > 1
    /\ StopIndex = FirstInvalid(args)
    /\ ret.tag = "Err"

\* C3: a call on valid input returns a value or the MathOverflow error and
\* never ends any other way.
C3_ValueOrMathOverflow ==
    (Returned /\ ValidArgs(args)) => (IsOk(ret) \/ ret = Err("MathOverflow"))

\* C4: the converted price is floor(price_e8 * 2^64 / 10^8).
C4_PriceScaledBy1e8 ==
    IsOk(price_q64) =>
        price_q64.val = Div(Mul(FromInt(cur.price_e8), ONE_Q64_64), ten_pow(8))

\* C8: a returned error was raised by the loop position the call stopped at,
\* every earlier position in processing order (collaterals, then debts) is
\* valid and was valued and accumulated, the error is that position's first
\* failing check (price, decimals, threshold, borrow factor) or else
\* MathOverflow, and the positions behind it do not matter.
C8_FirstFailingPosition ==
    (Returned /\ ret.tag = "Err") =>
        /\ InLoop
        /\ StopIndex <= NumPositions(args)
        /\ \A g \in 1..(StopIndex - 1) : RequirementAt(args, g) = "None"
        /\ pc = "debts" =>
              Ok(total_collateral_value_q64)
                  = collateral_loop(args.collaterals, 1, Ok(Zero))
        /\ ret.err = IF RequirementAt(args, StopIndex) # "None"
                     THEN RequirementAt(args, StopIndex) ELSE "MathOverflow"
        /\ ret = compute_hf_internal(Truncated(args, StopIndex))

\* a call with collateral that returned an error at its second debt
C8_Witness ==
    /\ Returned /\ ret.tag = "Err"
    /\ pc = "debts" /\ k = 2
    /\ Len(args.collaterals) > 0

\* C10 as stated: a returned value with a strictly positive debt amount in the
\* (valid) input has a non-zero total debt value.
C10_Original ==
    (Returned /\ IsOk(ret) /\ ValidArgs(args)
        /\ \E j \in 1..Len(args.debts) : args.debts[j].amount # Zero)
    => total_debt_value_q64 # Zero

\* C10 amended: for a returned value the total debt value is zero, and the
\* sentinel u128::MAX returned, exactly when every debt's Q64.64 value
\* truncates to zero; amount 0 does, and so does a positive dust amount.
C10_SentinelIffDebtValuesZero ==
    (Returned /\ IsOk(ret)) =>
        /\ total_debt_value_q64 = Zero
              <=> \A j \in 1..Len(args.debts) : DebtTruncatesToZero(args.debts[j])
        /\ total_debt_value_q64 = Zero => ret.val = U128_MAX
        /\ \A j \in 1..Len(args.debts) :
              args.debts[j].amount = Zero => DebtTruncatesToZero(args.debts[j])

\* a positive debt amount whose value truncates to zero: the sentinel is returned
C10_Witness ==
    /\ Returned /\ IsOk(ret)
    /\ total_debt_value_q64 = Zero
    /\ \E j \in 1..Len(args.debts) : args.debts[j].amount # Zero

\* ------------------------------------------------------------------------
\* Properties of two calls that differ in one field (specification SpecPair)
\* ------------------------------------------------------------------------

BothCalled == ret # NoRet /\ ret2 # NoRet

\* C5: of two valid inputs that differ in one collateral's amount and both
\* return a value, the one with the larger amount has the health factor that
\* is greater or equal.
C5_MonotoneInCollateral ==
    (BothCalled /\ vary.kind = "collateral_amount"
        /\ ValidArgs(args) /\ ValidArgs(Varied(args, vary))
        /\ IsOk(ret) /\ IsOk(ret2))
    => Le(ret.val, ret2.val)

\* more collateral against a non-zero debt raised the health factor
C5_Witness ==
    /\ BothCalled /\ vary.kind = "collateral_amount"
    /\ IsOk(ret) /\ IsOk(ret2)
    /\ Lt(ret.val, ret2.val)
    /\ ret2.val # U128_MAX

\* C6: of two valid inputs that differ in one debt's amount and both return a
\* value, the one with the larger amount has the health factor that is less
\* or equal, the step from u128::MAX at zero total debt included.
C6_MonotoneInDebt ==
    (BothCalled /\ vary.kind = "debt_amount"
        /\ ValidArgs(args) /\ ValidArgs(Varied(args, vary))
        /\ IsOk(ret) /\ IsOk(ret2))
    => Le(ret2.val, ret.val)

\* the first debt of an input took the health factor from u128::MAX down
C6_Witness ==
    /\ BothCalled /\ vary.kind = "debt_amount"
    /\ IsOk(ret) /\ IsOk(ret2)
    /\ ret.val = U128_MAX
    /\ Lt(ret2.val, ret.val)

IsCall == clock' = clock

\* C9: a failing call leaves every hf_state account as it was and emits no
\* event; a successful call stores exactly the health factor of its own
\* arguments, which the one emitted event carries too, with the signer and
\* the current slot, and touches no other user's account.
C9_StoredHfIsLastSuccess ==
    [][IsCall =>
        IF IsOk(compute_hf_internal(args'))
        THEN /\ hf_state'[signer'] =
                   [exists |-> TRUE,
                    last_hf_q64 |-> compute_hf_internal(args').val,
                    user |-> signer',
                    last_update_slot |-> clock.slot]
             /\ \A u \in Users \ {signer'} : hf_state'[u] = hf_state[u]
             /\ emitted' = <<[user |-> signer',
                              hf_q64 |-> compute_hf_internal(args').val,
                              timestamp |-> clock.unix_timestamp]>>
        ELSE /\ hf_state' = hf_state
             /\ emitted' = <<>>]_vars

\* a call failed on an account that an earlier slot's call had written, and
\* the account still holds that call's health factor
C9_Witness ==
    /\ signer \in Users
    /\ ~IsOk(ret)
    /\ emitted = <<>>
    /\ hf_state[signer].exists
    /\ hf_state[signer].last_update_slot < clock.slot
    /\ hf_state[signer].last_hf_q64 # U128_MAX

====
